---- MODULE Spec2Model ----
(***************************************************************************)
(* Model of scripts/generate_multi_parameter_e2e_analysis.py: the batch    *)
(* scan controller (run_batch_scan), the metric extractor                  *)
(* (parse_custom_metrics) and the report enricher                          *)
(* (inject_metrics_into_json), together with the parts of their            *)
(* environment they act on: the external benchmark process, its pipe, the  *)
(* chown command and the report files.                                     *)
(***************************************************************************)
EXTENDS Integers, Sequences, FiniteSets, TLC

(***************************************************************************)
(* Bounds of the model.                                                    *)
(***************************************************************************)
\* The sweeps explored are those of a matrix of at most MaxConfigs points.
MaxConfigs == 2
\* The captured texts of the extractor's own specification are made of at
\* most MaxSegs segments.
MaxSegs == 2
\* The sweeps explored for the order of the matrix are those of at most
\* MaxPoints points.
MaxPoints == 4

(***************************************************************************)
(* Program constants.                                                      *)
(***************************************************************************)
REPORTS_DIR == "reports"
WRITER_LEVELS == <<1, 2, 4, 6, 8>>
RECORD_LEVELS == <<100000, 1000000, 10000000>>
BATCH_SIZE_LEVELS == <<1024, 5120, 10240, 20480>>

(***************************************************************************)
(* Python values.  Every value is a record [t, v]: t is the Python type    *)
(* and v a sequence holding the payload.                                   *)
(*   dict  : v is the sequence of items [key, val] in insertion order      *)
(*   list  : v is the sequence of elements                                 *)
(*   float : v = <<m, e>>, the number m / 10^e with e minimal              *)
(*   int   : v = <<m>>                                                     *)
(*   str   : v = <<s>>                                                     *)
(*   None  : v = <<>>                                                      *)
(***************************************************************************)
PyNone == [t |-> "None", v |-> <<>>]
PyStr(s) == [t |-> "str", v |-> <<s>>]
PyInt(m) == [t |-> "int", v |-> <<m>>]
PyList(els) == [t |-> "list", v |-> els]
PyDict(items) == [t |-> "dict", v |-> items]
EmptyDict == PyDict(<<>>)

\* bool(x), as used by `if not metrics`, `if data.get("results")`.
Truthy(x) ==
    CASE x.t = "None" -> FALSE
      [] x.t = "str" -> x.v[1] # ""
      [] x.t \in {"int", "float"} -> x.v[1] # 0
      [] OTHER -> Len(x.v) > 0

HasKey(d, key) == \E n \in 1..Len(d.v) : d.v[n].key = key

\* d[key] for a key the dict holds.
DictItem(d, key) == d.v[CHOOSE n \in 1..Len(d.v) : d.v[n].key = key].val

\* d.get(key)
DictGet(d, key) == IF HasKey(d, key) THEN DictItem(d, key) ELSE PyNone

\* d[key] = val: an existing key keeps its place, a new key goes last.
DictSet(d, key, val) ==
    IF HasKey(d, key)
    THEN PyDict([n \in 1..Len(d.v) |->
                    IF d.v[n].key = key THEN [key |-> key, val |-> val] ELSE d.v[n]])
    ELSE PyDict(Append(d.v, [key |-> key, val |-> val]))

(***************************************************************************)
(* float(s) and repr of numbers.  A text is a sequence of one-character    *)
(* strings.                                                                *)
(***************************************************************************)
Digits == <<"0", "1", "2", "3", "4", "5", "6", "7", "8", "9">>
IsDigit(c) == \E n \in 1..10 : Digits[n] = c
DigitVal(c) == (CHOOSE n \in 1..10 : Digits[n] = c) - 1
\* The class [\d.] of the three patterns.
IsNumChar(c) == IsDigit(c) \/ c = "."

RECURSIVE DigitsVal(_)
DigitsVal(s) ==
    IF s = <<>> THEN 0
    ELSE 10 * DigitsVal(SubSeq(s, 1, Len(s) - 1)) + DigitVal(s[Len(s)])

RECURSIVE Pow10(_)
Pow10(n) == IF n = 0 THEN 1 ELSE 10 * Pow10(n - 1)

RECURSIVE Normalize(_, _)
Normalize(m, e) ==
    IF e > 0 /\ m % 10 = 0 THEN Normalize(m \div 10, e - 1) ELSE <<m, e>>

DotCount(s) == Cardinality({n \in 1..Len(s) : s[n] = "."})
DigitCount(s) == Cardinality({n \in 1..Len(s) : IsDigit(s[n])})

\* float(s) raises ValueError unless s is digits with at most one point and
\* at least one digit (s is made of digits and points here).
FloatParses(s) ==
    /\ \A n \in 1..Len(s) : IsNumChar(s[n])
    /\ DotCount(s) <= 1
    /\ DigitCount(s) >= 1

\* float(s) for a string that parses.
PyFloat(s) ==
    LET ds == SelectSeq(s, IsDigit)
        e == IF DotCount(s) = 0 THEN 0
             ELSE Len(s) - (CHOOSE n \in 1..Len(s) : s[n] = ".")
    IN [t |-> "float", v |-> Normalize(DigitsVal(ds), e)]

RECURSIVE IntRepr(_)
IntRepr(m) ==
    IF m < 10 THEN <<Digits[m + 1]>>
    ELSE Append(IntRepr(m \div 10), Digits[(m % 10) + 1])

RECURSIVE PadLeft(_, _)
PadLeft(s, n) == IF Len(s) >= n THEN s ELSE PadLeft(<<"0">> \o s, n)

\* repr of a float, as json.dump writes it: 5.0, 0.5, 123.4.
FloatRepr(x) ==
    LET m == x.v[1]
        e == x.v[2]
    IN IF e = 0 THEN IntRepr(m) \o <<".", "0">>
       ELSE IntRepr(m \div Pow10(e)) \o <<".">> \o PadLeft(IntRepr(m % Pow10(e)), e)

\* A JSON number: -?(0|[1-9]\d*)(\.\d+)? (no sign and no exponent here).
IsJsonNumber(s) ==
    /\ FloatParses(s)
    /\ IsDigit(s[1])
    /\ IsDigit(s[Len(s)])
    /\ (Len(s) >= 2 /\ s[1] = "0") => s[2] = "."

\* The Python number of a JSON number: an int without a point, else a float.
JsonNumber(s) == IF DotCount(s) = 0 THEN PyInt(DigitsVal(s)) ELSE PyFloat(s)

(***************************************************************************)
(* File contents.  A file is a sequence of tokens [k, x], x a sequence of  *)
(* strings: punctuation, a string, a number as written, a literal, white   *)
(* space (a newline and its indentation), or bytes that are no JSON.       *)
(***************************************************************************)
TP(c) == [k |-> "p", x |-> <<c>>]
TS(s) == [k |-> "str", x |-> <<s>>]
TN(s) == [k |-> "num", x |-> s]
TL(w) == [k |-> "lit", x |-> <<w>>]
TW(depth) == [k |-> "ws", x |-> [n \in 1..depth |-> "  "]]
TJunk == [k |-> "junk", x |-> <<"?">>]

IsP(tok, c) == tok.k = "p" /\ tok.x = <<c>>

(***************************************************************************)
(* json.dump(data, f, indent=2)                                            *)
(***************************************************************************)
RECURSIVE Dump(_, _), DumpItems(_, _, _), DumpEls(_, _, _)
Dump(x, lvl) ==
    CASE x.t = "None" -> <<TL("null")>>
      [] x.t = "str" -> <<TS(x.v[1])>>
      [] x.t = "int" -> <<TN(IntRepr(x.v[1]))>>
      [] x.t = "float" -> <<TN(FloatRepr(x))>>
      [] x.t = "dict" ->
            IF x.v = <<>> THEN <<TP("{"), TP("}")>>
            ELSE <<TP("{")>> \o DumpItems(x.v, 1, lvl + 1) \o <<TW(lvl), TP("}")>>
      [] x.t = "list" ->
            IF x.v = <<>> THEN <<TP("["), TP("]")>>
            ELSE <<TP("[")>> \o DumpEls(x.v, 1, lvl + 1) \o <<TW(lvl), TP("]")>>

DumpItems(items, n, lvl) ==
    IF n > Len(items) THEN <<>>
    ELSE (IF n > 1 THEN <<TP(",")>> ELSE <<>>)
         \o <<TW(lvl), TS(items[n].key), TP(":")>>
         \o Dump(items[n].val, lvl)
         \o DumpItems(items, n + 1, lvl)

DumpEls(els, n, lvl) ==
    IF n > Len(els) THEN <<>>
    ELSE (IF n > 1 THEN <<TP(",")>> ELSE <<>>)
         \o <<TW(lvl)>>
         \o Dump(els[n], lvl)
         \o DumpEls(els, n + 1, lvl)

(***************************************************************************)
(* json.load(f): the value of the text, or JSONDecodeError.  A parse       *)
(* result is [ok, val, next]: next is the index after the value.           *)
(***************************************************************************)
ParseFail == [ok |-> FALSE, val |-> PyNone, next |-> 0]
ParseOk(val, next) == [ok |-> TRUE, val |-> val, next |-> next]

RECURSIVE SkipWs(_, _)
SkipWs(toks, n) ==
    IF n <= Len(toks) /\ toks[n].k = "ws" THEN SkipWs(toks, n + 1) ELSE n

RECURSIVE ParseValue(_, _), ParseItems(_, _, _), ParseEls(_, _, _)
ParseValue(toks, n0) ==
    LET n == SkipWs(toks, n0)
    IN IF n > Len(toks) THEN ParseFail
       ELSE LET tok == toks[n]
            IN CASE tok.k = "num" ->
                        IF IsJsonNumber(tok.x) THEN ParseOk(JsonNumber(tok.x), n + 1)
                        ELSE ParseFail
                 [] tok.k = "str" -> ParseOk(PyStr(tok.x[1]), n + 1)
                 [] tok.k = "lit" -> ParseOk(PyNone, n + 1)
                 [] IsP(tok, "{") ->
                        LET m == SkipWs(toks, n + 1)
                        IN IF m <= Len(toks) /\ IsP(toks[m], "}")
                           THEN ParseOk(EmptyDict, m + 1)
                           ELSE ParseItems(toks, m, EmptyDict)
                 [] IsP(tok, "[") ->
                        LET m == SkipWs(toks, n + 1)
                        IN IF m <= Len(toks) /\ IsP(toks[m], "]")
                           THEN ParseOk(PyList(<<>>), m + 1)
                           ELSE ParseEls(toks, m, <<>>)
                 [] OTHER -> ParseFail

\* The items of an object from the key at n on; a repeated key keeps the
\* place of its first occurrence and the value of its last.
ParseItems(toks, n, acc) ==
    LET c == SkipWs(toks, n + 1)
    IN IF ~(n <= Len(toks) /\ toks[n].k = "str") THEN ParseFail
       ELSE IF ~(c <= Len(toks) /\ IsP(toks[c], ":")) THEN ParseFail
       ELSE LET r == ParseValue(toks, c + 1)
                m == SkipWs(toks, r.next)
                d == DictSet(acc, toks[n].x[1], r.val)
            IN IF ~r.ok \/ m > Len(toks) THEN ParseFail
               ELSE IF IsP(toks[m], "}") THEN ParseOk(d, m + 1)
               ELSE IF IsP(toks[m], ",") THEN ParseItems(toks, SkipWs(toks, m + 1), d)
               ELSE ParseFail

ParseEls(toks, n, acc) ==
    LET r == ParseValue(toks, n)
        m == SkipWs(toks, r.next)
    IN IF ~r.ok \/ m > Len(toks) THEN ParseFail
       ELSE IF IsP(toks[m], "]") THEN ParseOk(PyList(Append(acc, r.val)), m + 1)
       ELSE IF IsP(toks[m], ",") THEN ParseEls(toks, m + 1, Append(acc, r.val))
       ELSE ParseFail

\* The whole text must be one value: anything after it is "Extra data".
JsonLoad(toks) ==
    LET r == ParseValue(toks, 1)
    IN IF r.ok /\ SkipWs(toks, r.next) = Len(toks) + 1 THEN r ELSE ParseFail

(***************************************************************************)
(* parse_custom_metrics.  A captured text is a sequence of symbols: the    *)
(* characters of [\d.], and one symbol for each literal of the patterns    *)
(* (no literal overlaps another or a number character), for a newline and  *)
(* for any other text.                                                     *)
(***************************************************************************)
patterns ==
    << [key |-> "total_time_ms",
        pre |-> "Total generation and write time: ", suf |-> "ms"],
       [key |-> "record_throughput_m_sec",
        pre |-> "Record Throughput: ", suf |-> "M records/sec"],
       [key |-> "mem_throughput_gb_sec",
        pre |-> "In-Memory Throughput: ", suf |-> " GB/s"] >>

\* The last index of the longest run of [\d.] that starts at n (n - 1 when
\* text[n] is no such character): the greedy ([\d.]+).
RECURSIVE RunEnd(_, _)
RunEnd(text, n) ==
    IF n <= Len(text) /\ IsNumChar(text[n]) THEN RunEnd(text, n + 1) ELSE n - 1

\* The pattern matches at n: its prefix, one or more of [\d.], its suffix.
\* The suffix starts with no character of [\d.], so only the longest run can
\* be followed by it.
MatchAt(p, text, n) ==
    LET e == RunEnd(text, n + 1)
    IN /\ n <= Len(text)
       /\ text[n] = p.pre
       /\ e >= n + 1
       /\ e + 1 <= Len(text)
       /\ text[e + 1] = p.suf

NoMatch == [matched |-> FALSE, group1 |-> <<>>]

\* As re_search, taking the last match (re.findall(pattern, text)[-1]).
RECURSIVE re_search_last(_, _, _)
re_search_last(p, text, n) ==
    IF n > Len(text) THEN NoMatch
    ELSE LET later == re_search_last(p, text, n + 1)
         IN IF later.matched THEN later
            ELSE IF MatchAt(p, text, n)
                 THEN [matched |-> TRUE,
                       group1 |-> SubSeq(text, n + 1, RunEnd(text, n + 1))]
                 ELSE NoMatch

\* re.search(pattern, text): the leftmost match, from position n on.
RECURSIVE re_search(_, _, _)
re_search(p, text, n) ==
    IF n > Len(text) THEN NoMatch
    ELSE IF MatchAt(p, text, n)
         THEN [matched |-> TRUE, group1 |-> SubSeq(text, n + 1, RunEnd(text, n + 1))]
         ELSE re_search(p, text, n + 1)

\* As ParseOne, with a value that does not parse defaulted to zero.
ParseOneZero(p, text, acc) ==
    LET match == re_search(p, text, 1)
    IN IF ~match.matched THEN acc
       ELSE IF FloatParses(match.group1)
            THEN [acc EXCEPT !.metrics = DictSet(@, p.key, PyFloat(match.group1))]
            ELSE [acc EXCEPT !.metrics = DictSet(@, p.key, PyFloat(<<"0">>)),
                             !.warnings = Append(@, p.key)]

\* One turn of the loop over the patterns: acc is [metrics, warnings].
ParseOne(p, text, acc) ==
    LET match == re_search(p, text, 1)
    IN IF ~match.matched THEN acc
       ELSE IF FloatParses(match.group1)
            THEN [acc EXCEPT !.metrics = DictSet(@, p.key, PyFloat(match.group1))]
            ELSE [acc EXCEPT !.warnings = Append(@, p.key)]

RECURSIVE ParseLoop(_, _, _)
ParseLoop(text, n, acc) ==
    IF n > Len(patterns) THEN acc
    ELSE ParseLoop(text, n + 1, ParseOne(patterns[n], text, acc))

\* The result is [metrics, warnings]: the returned dict and the keys a
\* warning was printed for.
parse_custom_metrics(output_text) ==
    ParseLoop(output_text, 1, [metrics |-> EmptyDict, warnings |-> <<>>])

\* "".join(captured_output)
RECURSIVE Join(_)
Join(lines) == IF lines = <<>> THEN <<>> ELSE Head(lines) \o Join(Tail(lines))

(***************************************************************************)
(* The configuration matrix, the report paths and the commands.            *)
(***************************************************************************)
BENCH_BIN == "./target/release/parquet-nested-parallel"
HYPERFINE_BIN == "~/.cargo/bin/hyperfine"

\* itertools.product(A, B, C): three nested loops, the last list innermost;
\* a, b, c are the loop counters.
RECURSIVE ProductFrom(_, _, _, _, _, _)
ProductFrom(A, B, C, a, b, c) ==
    IF a > Len(A) THEN <<>>
    ELSE IF b > Len(B) THEN ProductFrom(A, B, C, a + 1, 1, 1)
    ELSE IF c > Len(C) THEN ProductFrom(A, B, C, a, b + 1, 1)
    ELSE <<<<A[a], B[b], C[c]>>>> \o ProductFrom(A, B, C, a, b, c + 1)

\* As product, with the loops nested the other way round: the first list
\* innermost.
product_first_innermost(A, B, C) ==
    LET q == ProductFrom(C, B, A, 1, 1, 1)
    IN [n \in 1..Len(q) |-> <<q[n][3], q[n][2], q[n][1]>>]

product(A, B, C) == ProductFrom(A, B, C, 1, 1, 1)

\* The sweeps explored use the first lv[1] writer levels, lv[2] record levels
\* and lv[3] batch sizes, for every such choice of at most MaxConfigs points.
Shapes ==
    {lv \in (1..Len(WRITER_LEVELS)) \X (1..Len(RECORD_LEVELS)) \X (1..Len(BATCH_SIZE_LEVELS)) :
        lv[1] * lv[2] * lv[3] <= MaxConfigs}

\* The same, for at most MaxPoints points.
MatrixShapes ==
    {lv \in (1..Len(WRITER_LEVELS)) \X (1..Len(RECORD_LEVELS)) \X (1..Len(BATCH_SIZE_LEVELS)) :
        lv[1] * lv[2] * lv[3] <= MaxPoints}

\* As OutputFilename, with the batch size left out of the name.
OutputFilenameNoBatch(c) ==
    <<REPORTS_DIR, "/", "run-W">> \o IntRepr(c[1]) \o <<"-R">> \o IntRepr(c[2])
        \o <<".json">>

\* As OutputFilename, with records and batch size in each other's place.
OutputFilenameSwapped(c) ==
    <<REPORTS_DIR, "/", "run-W">> \o IntRepr(c[1]) \o <<"-R">> \o IntRepr(c[3])
        \o <<"-B">> \o IntRepr(c[2]) \o <<".json">>

\* str(REPORTS_DIR / f"run-W{writers}-R{records}-B{batch_size}.json")
OutputFilename(c) ==
    <<REPORTS_DIR, "/", "run-W">> \o IntRepr(c[1]) \o <<"-R">> \o IntRepr(c[2])
        \o <<"-B">> \o IntRepr(c[3]) \o <<".json">>

\* bench_command
BenchCommand(c) ==
    <<BENCH_BIN, " --num-writers ">> \o IntRepr(c[1]) \o <<" --target-records ">>
        \o IntRepr(c[2]) \o <<" --record-batch-size ">> \o IntRepr(c[3])

\* command_to_run: what the shell is given, as the runner reads it.
CommandToRun(c) ==
    [argv0 |-> <<"sudo", "/bin/sh", "-c">>,
     runner |-> HYPERFINE_BIN,
     warmup |-> 1,
     runs |-> 10,
     prepare |-> "sync; echo 3 > /proc/sys/vm/drop_caches",
     export_json |-> OutputFilename(c),
     bench |-> BenchCommand(c)]

NoCommand == CommandToRun(<<0, 0, 0>>)

(***************************************************************************)
(* Files.  A report path holds no file, or a file with its content, its    *)
(* owner and whether this program may open it for reading and writing.     *)
(***************************************************************************)
Absent == [exists |-> FALSE, content |-> <<>>, owner |-> <<>>, access |-> "rw"]
RootFile(content, access) ==
    [exists |-> TRUE, content |-> content, owner |-> <<"root", "root">>, access |-> access]

\* f.write(chunk) at position pos: the chunk replaces what was there and
\* extends the file past its end.
Overwrite(content, pos, chunk) ==
    SubSeq(content, 1, pos) \o chunk
        \o SubSeq(content, pos + Len(chunk) + 1, Len(content))

\* d.update(other), from the n-th item of other on.
RECURSIVE DictUpdate(_, _, _)
DictUpdate(d, other, n) ==
    IF n > Len(other.v) THEN d
    ELSE DictUpdate(DictSet(d, other.v[n].key, other.v[n].val), other, n + 1)

\* As SetCustomMetrics, merging into an earlier value:
\* data["results"][0].setdefault("custom_metrics", {}).update(metrics).
SetCustomMetricsUpdate(data, metrics) ==
    LET results == DictItem(data, "results")
        earlier == DictGet(results.v[1], "custom_metrics")
        base == IF earlier.t = "dict" THEN earlier ELSE EmptyDict
        entry == DictSet(results.v[1], "custom_metrics", DictUpdate(base, metrics, 1))
    IN DictSet(data, "results", PyList([results.v EXCEPT ![1] = entry]))

\* data["results"][0]["custom_metrics"] = metrics, for data of the shape the
\* statement needs.
SetCustomMetrics(data, metrics) ==
    LET results == DictItem(data, "results")
        entry == DictSet(results.v[1], "custom_metrics", metrics)
    IN DictSet(data, "results", PyList([results.v EXCEPT ![1] = entry]))

\* The exception data["results"][0]["custom_metrics"] = metrics raises, ""
\* when it raises none.  results is truthy here.
AssignError(data) ==
    LET results == DictItem(data, "results")
    IN CASE results.t = "dict" -> "KeyError"
         [] results.t \in {"int", "float", "str"} -> "TypeError"
         [] results.t = "list" /\ results.v = <<>> -> "IndexError"
         [] results.t = "list" /\ results.v[1].t # "dict" -> "TypeError"
         [] OTHER -> ""

\* As NoMetrics, written `if metrics is None`.
NoMetricsIsNone(metrics) == metrics.t = "None"

\* `if not metrics` (line 41)
NoMetrics(metrics) == ~Truthy(metrics)

\* As HasResults, written `if "results" in data`.
HasResultsKey(data) == HasKey(data, "results")

\* `if data.get("results")` (line 47), for a dict.
HasResults(data) == Truthy(DictGet(data, "results"))

\* As RunFailed, taking only a negative status (death by signal) for failure.
RunFailedSigned(rc) == rc < 0

\* `if return_code != 0` (line 98)
RunFailed(rc) == rc # 0

\* As IdsKnown, written `if user_id or group_id`.
IdsKnownEither(uid, gid) == uid # "" \/ gid # ""

\* `if user_id and group_id` (line 105)
IdsKnown(uid, gid) == uid # "" /\ gid # ""

\* The exceptions inject_metrics_into_json catches (line 53).
InjectCaught == {"FileNotFoundError", "JSONDecodeError", "PermissionError"}

(***************************************************************************)
(* What the environment may do.  The external process prints some lines,   *)
(* may export a report file and exits with a status; the sets below are    *)
(* the behaviours explored.  Three worlds bound them differently: "sweep"  *)
(* runs matrices of several points with few behaviours per run, "extract"  *)
(* and "enrich" run a matrix of one point with many captured texts, and    *)
(* many report files.                                                      *)
(***************************************************************************)
NL == "\n"
P1 == patterns[1].pre
S1 == patterns[1].suf
P2 == patterns[2].pre
S2 == patterns[2].suf
P3 == patterns[3].pre
S3 == patterns[3].suf

\* What a pattern may capture, parseable or not.
Captures ==
    {<<"5">>, <<"1", ".", "5">>, <<"0", "7">>, <<".">>, <<"1", ".", "2", ".", "3">>}

\* Pieces of output: a full match of a rule, a prefix whose number is not
\* followed by the suffix, and text that belongs to no rule.
Segments ==
    {<<P1>> \o c \o <<S1>> : c \in Captures}
        \cup {<<patterns[r].pre>> \o c \o <<patterns[r].suf>> :
                 r \in 2..3, c \in {<<"1", ".", "5">>, <<".">>}}
        \cup {<<P1, "5", "x">>, <<P1, S1>>, <<"x">>}

RECURSIVE SeqsUpTo(_, _)
\* The sequences of at most n elements of S.
SeqsUpTo(S, n) ==
    IF n = 0 THEN {<<>>}
    ELSE LET shorter == SeqsUpTo(S, n - 1)
         IN shorter \cup {Append(q, x) : q \in shorter, x \in S}

RECURSIVE Concat(_)
Concat(segs) == IF segs = <<>> THEN <<>> ELSE Head(segs) \o Concat(Tail(segs))

\* The segments that come as lines of their own.
LineSegments ==
    {<<P1, "5", S1>>, <<P1, "1", ".", "5", S1>>, <<P1, ".", S1>>,
     <<P2, "1", ".", "5", S2>>, <<"x">>}

\* The outputs of the "extract" world: one line of up to MaxSegs segments, or
\* up to MaxSegs lines of one segment each.
ExtractOutputs ==
    {<<Concat(q) \o <<NL>>>> : q \in SeqsUpTo(Segments, MaxSegs) \ {<<>>}}
        \cup {[n \in 1..Len(q) |-> q[n] \o <<NL>>] : q \in SeqsUpTo(LineSegments, MaxSegs)}

JunkLine == <<"x", NL>>
TimeLine == <<P1, "5", S1, NL>>
RecordLine == <<P2, "1", ".", "5", S2, NL>>
MemLine == <<P3, ".", "5", S3, NL>>

SweepOutputs == {<<JunkLine>>, <<JunkLine, TimeLine>>}
EnrichOutputs == {<<JunkLine>>, <<TimeLine>>, <<TimeLine, RecordLine, MemLine>>}

\* The runs <<output, exit status>> of a world.
Runs(w) ==
    CASE w = "sweep" -> SweepOutputs \X {0, 1}
      [] w = "extract" -> (ExtractOutputs \X {0}) \cup {<<<<JunkLine>>, 1>>}
      [] w = "enrich" -> (EnrichOutputs \X {0}) \cup {<<<<JunkLine>>, 1>>}
      [] w = "matrix" -> {<<<<TimeLine>>, 0>>, <<<<JunkLine>>, 1>>}

\* Report texts, as the statistical runner or anything else may leave them.
TimesText == <<TP("["), TN(<<"1", ".", "5", "0">>), TP(","), TN(<<"2">>), TP("]")>>
EntryText(more) == <<TP("{"), TS("times"), TP(":")>> \o TimesText \o more \o <<TP("}")>>
StaleMetricsText ==
    <<TP(","), TS("custom_metrics"), TP(":"), TP("{"), TS("total_time_ms"), TP(":"),
      TN(<<"9", ".", "0">>), TP(","), TS("stale"), TP(":"), TN(<<"1">>), TP("}")>>
DocText(results) ==
    <<TP("{"), TS("results"), TP(":")>> \o results
        \o <<TP(","), TS("tool"), TP(":"), TS("hyperfine"), TP("}")>>

GoodOne == DocText(<<TP("[")>> \o EntryText(<<>>) \o <<TP("]")>>)
GoodTwo ==
    DocText(<<TP("[")>> \o EntryText(<<>>) \o <<TP(",")>>
                \o EntryText(StaleMetricsText) \o <<TP("]")>>)
GoodStale == DocText(<<TP("[")>> \o EntryText(StaleMetricsText) \o <<TP("]")>>)
\* A report this program enriched before with three metrics and an entry
\* more: longer than the text a one-metric enrichment writes over it.
GoodLong ==
    Dump(SetCustomMetrics(JsonLoad(GoodTwo).val,
                          parse_custom_metrics(TimeLine \o RecordLine \o MemLine).metrics), 0)
EmptyResults == DocText(<<TP("["), TP("]")>>)
NullResults == DocText(<<TL("null")>>)
NoResults == <<TP("{"), TS("tool"), TP(":"), TS("hyperfine"), TP("}")>>
TopList == <<TP("[")>> \o EntryText(<<>>) \o <<TP("]")>>
StrResults == DocText(<<TS("none")>>)
DictResults == DocText(EntryText(<<>>))
NumberEntry == DocText(<<TP("["), TN(<<"1">>), TP("]")>>)
CutShort == <<TP("{"), TS("results"), TP(":"), TP("[")>>
NotJson == <<TJunk>>
EmptyFile == <<>>
ExtraData == GoodOne \o <<TJunk>>

WellShaped == {GoodOne, GoodTwo, GoodStale, GoodLong}
Resultless == {EmptyResults, NullResults, NoResults}
Misshapen == {TopList, StrResults, DictResults, NumberEntry}
Unparseable == {CutShort, NotJson, EmptyFile, ExtraData}

\* The files a run may export in a world.
Reports(w) ==
    CASE w = "sweep" -> {RootFile(GoodOne, "rw"), RootFile(TopList, "rw")}
      [] w = "extract" -> {RootFile(GoodOne, "rw")}
      [] w = "enrich" ->
            {RootFile(c, "rw") : c \in WellShaped \cup Resultless \cup Misshapen \cup Unparseable}
                \cup {RootFile(GoodOne, "denied")}
      [] w = "matrix" -> {RootFile(GoodOne, "rw")}

\* The values of SUDO_UID and SUDO_GID: not set, or set to this string.
Environs(w) ==
    IF w = "sweep"
    THEN [SUDO_UID : {"unset", ""}, SUDO_GID : {"unset"}]
             \cup [SUDO_UID : {"unset"}, SUDO_GID : {""}]
    ELSE [SUDO_UID : {"unset", ""}, SUDO_GID : {"unset"}]

\* os.environ.get(name, default)
EnvGet(env, name, default) == IF env[name] = "unset" THEN default ELSE env[name]
\* str(os.getuid()), str(os.getgid())
Getuid == "1000"
Getgid == "1000"

(***************************************************************************)
(* The state.                                                              *)
(***************************************************************************)
VARIABLES
    world,               \* which behaviours of the environment are explored
    environ,             \* SUDO_UID and SUDO_GID
    levels,              \* how many values of each axis list the matrix uses
    fs,                  \* the report files, by path
    proc,                \* the external process of the current run
    pc,                  \* where the controller is
    exc,                 \* the exception in flight or that ended the program
    param_combinations, total_runs, successful_runs, user_id, group_id,
    i, output_filename, command_to_run,
    captured_output, return_code, custom_metrics,
    f,                   \* inject_metrics_into_json: the open file
    data,                \* inject_metrics_into_json: the loaded document
    out,                 \* the part of json.dump's text not yet in the file
    events,              \* what the controller did for the current point
    warnings,            \* the warnings of the last parse_custom_metrics
    logged,              \* what the last inject_metrics_into_json printed
    printed_summary,     \* the final tallies printed so far
    before,              \* the file's text when the enricher last opened it
    calls,               \* how often the enricher returned for the current point
    first,               \* the report right after the enricher's first run
    seen,                \* what a concurrent reader read last
    nonzero_exits,       \* how many runs of the sweep exited nonzero
    launched,            \* the commands given to Popen so far, in order
    alive,               \* children started and not yet exited
    status,              \* "Succeeded" or "Failed" for each point marked so far
    passed,              \* what the current point's steps were called with
    patched              \* <<i, path>> of each rewrite the enricher began

vars ==
    <<world, environ, levels, fs, proc, pc, exc, param_combinations, total_runs,
      successful_runs, user_id, group_id, i, output_filename, command_to_run,
      captured_output, return_code, custom_metrics, f, data, out, events,
      warnings, logged, printed_summary, before, calls, first, seen,
      nonzero_exits, launched, alive, status, passed, patched>>

env_vars == <<world, environ, levels>>
setup_vars == <<param_combinations, total_runs, user_id, group_id>>
point_vars == <<i, output_filename, command_to_run>>
run_vars == <<captured_output, return_code, nonzero_exits>>
inject_vars == <<f, data, out, logged, before, calls, first>>
hist_vars == <<launched, alive, status, passed, patched>>

NoProc == [state |-> "none", argv |-> NoCommand, toEmit |-> <<>>, pipe |-> <<>>,
           said |-> <<>>, rc |-> 0, exported |-> FALSE]
\* Nothing was passed yet: each field holds the arguments of at most one call.
NothingPassed == [print |-> <<>>, chown |-> <<>>, inject |-> <<>>]
Closed == [open |-> FALSE, pos |-> 0]
Unseen == [valid |-> FALSE, content |-> <<>>, rewriting |-> FALSE, call |-> 0]

\* The axis lists of the matrix.
Writers == SubSeq(WRITER_LEVELS, 1, levels[1])
Records == SubSeq(RECORD_LEVELS, 1, levels[2])
Batches == SubSeq(BATCH_SIZE_LEVELS, 1, levels[3])

\* The report paths of the matrix.
Paths == {OutputFilename(c) : c \in {<<Writers[a], Records[b], Batches[c]>> :
              a \in 1..levels[1], b \in 1..levels[2], c \in 1..levels[3]}}

InitWorld(w, shapes) ==
    /\ world = w
    /\ environ \in Environs(w)
    /\ levels \in shapes
    /\ fs = [path \in Paths |-> Absent]
    /\ proc = NoProc
    /\ pc = "build"
    /\ exc = ""
    /\ param_combinations = <<>>
    /\ total_runs = 0
    /\ successful_runs = 0
    /\ user_id = ""
    /\ group_id = ""
    /\ i = -1
    /\ output_filename = <<>>
    /\ command_to_run = NoCommand
    /\ captured_output = <<>>
    /\ return_code = 0
    /\ custom_metrics = EmptyDict
    /\ f = Closed
    /\ data = PyNone
    /\ out = <<>>
    /\ events = <<>>
    /\ warnings = <<>>
    /\ logged = ""
    /\ printed_summary = <<>>
    /\ before = <<>>
    /\ calls = 0
    /\ first = Absent
    /\ seen = Unseen
    /\ nonzero_exits = 0
    /\ launched = <<>>
    /\ alive = 0
    /\ status = <<>>
    /\ passed = NothingPassed
    /\ patched = <<>>

Init == InitWorld("sweep", Shapes)
InitExtract == InitWorld("extract", {<<1, 1, 1>>})
InitEnrich == InitWorld("enrich", {<<1, 1, 1>>})
InitMatrix == InitWorld("matrix", MatrixShapes)

(***************************************************************************)
(* run_batch_scan.                                                         *)
(***************************************************************************)
\* Where an exception raised inside the try block (lines 93-114) takes the
\* controller: the handler of line 116 catches CalledProcessError only, any
\* other exception leaves run_batch_scan and ends the program.
\* As Handler, with no except clause: every exception leaves the loop.
HandlerNone(e) == "aborted"

\* As Handler, with a handler that runs the failed command again.
HandlerRetry(e) == IF e = "CalledProcessError" THEN "popen" ELSE "aborted"

Handler(e) == IF e = "CalledProcessError" THEN "except" ELSE "aborted"

\* Line 60: subprocess.run(["cargo", "build", ...], check=True).
Build ==
    /\ pc = "build"
    /\ \/ pc' = "setup" /\ exc' = exc
       \/ pc' = "aborted" /\ exc' = "CalledProcessError"
    /\ UNCHANGED <<hist_vars, env_vars, fs, proc, setup_vars, successful_runs, point_vars,
                   run_vars, custom_metrics, inject_vars, events, warnings,
                   printed_summary, seen>>

\* Lines 62-77: the matrix, the counters and the ids.
Setup ==
    /\ pc = "setup"
    /\ param_combinations' = product(Writers, Records, Batches)
    /\ total_runs' = Len(param_combinations')
    /\ successful_runs' = 0
    /\ user_id' = EnvGet(environ, "SUDO_UID", Getuid)
    /\ group_id' = EnvGet(environ, "SUDO_GID", Getgid)
    /\ pc' = "for"
    /\ UNCHANGED <<hist_vars, env_vars, fs, proc, exc, point_vars, run_vars, custom_metrics,
                   inject_vars, events, warnings, printed_summary, seen>>

\* Line 79-91: the next point of the matrix, its report path and command; or
\* the end of the loop.
ForNext ==
    /\ pc = "for"
    /\ i + 1 < total_runs
    /\ i' = i + 1
    /\ output_filename' = OutputFilename(param_combinations[i' + 1])
    /\ command_to_run' = CommandToRun(param_combinations[i' + 1])
    /\ events' = <<>>
    /\ calls' = 0
    /\ first' = Absent
    /\ pc' = "popen"
    /\ passed' = NothingPassed
    /\ UNCHANGED <<launched, alive, status, patched, env_vars, fs, proc, exc, setup_vars, successful_runs, run_vars,
                   custom_metrics, f, data, out, logged, before, warnings,
                   printed_summary, seen>>

ForEnd ==
    /\ pc = "for"
    /\ ~(i + 1 < total_runs)
    /\ pc' = "summary"
    /\ UNCHANGED <<hist_vars, env_vars, fs, proc, exc, setup_vars, successful_runs, point_vars,
                   run_vars, custom_metrics, inject_vars, events, warnings,
                   printed_summary, seen>>

\* Line 94: subprocess.Popen(command_to_run, stdout=PIPE, stderr=STDOUT).
\* The run the process will make is the environment's choice.
Popen ==
    /\ pc = "popen"
    /\ \E run \in Runs(world) :
          proc' = [state |-> "running", argv |-> command_to_run, toEmit |-> run[1],
                   pipe |-> <<>>, said |-> <<>>, rc |-> run[2], exported |-> FALSE]
    /\ captured_output' = <<>>
    /\ events' = Append(events, "Popen")
    /\ pc' = "read"
    /\ launched' = Append(launched, command_to_run)
    /\ alive' = alive + 1
    /\ UNCHANGED <<status, passed, patched, env_vars, fs, exc, setup_vars, successful_runs, point_vars,
                   return_code, nonzero_exits, custom_metrics, inject_vars, warnings,
                   printed_summary, seen>>

\* The process writes its next line to the pipe.
ProcEmit ==
    /\ proc.state = "running"
    /\ proc.toEmit # <<>>
    /\ proc' = [proc EXCEPT !.toEmit = Tail(@), !.pipe = Append(@, Head(proc.toEmit)),
                             !.said = Append(@, Head(proc.toEmit))]
    /\ UNCHANGED <<hist_vars, env_vars, fs, pc, exc, setup_vars, successful_runs, point_vars,
                   run_vars, custom_metrics, inject_vars, events, warnings,
                   printed_summary, seen>>

\* The statistical runner exports its report to the path of --export-json,
\* once, after the benchmark runs.
ProcExport ==
    /\ proc.state \in {"running", "closed"}
    /\ proc.toEmit = <<>>
    /\ ~proc.exported
    /\ \E file \in Reports(world) : fs' = [fs EXCEPT ![proc.argv.export_json] = file]
    /\ proc' = [proc EXCEPT !.exported = TRUE]
    /\ UNCHANGED <<hist_vars, env_vars, pc, exc, setup_vars, successful_runs, point_vars,
                   run_vars, custom_metrics, inject_vars, events, warnings,
                   printed_summary, seen>>

\* The process closes its standard output and error, and runs on.
ProcClose ==
    /\ proc.state = "running"
    /\ proc.toEmit = <<>>
    /\ proc' = [proc EXCEPT !.state = "closed"]
    /\ UNCHANGED <<hist_vars, env_vars, fs, pc, exc, setup_vars, successful_runs, point_vars,
                   run_vars, custom_metrics, inject_vars, events, warnings,
                   printed_summary, seen>>

\* The process exits: its end of the pipe closes, if it was still open.
ProcExit ==
    /\ proc.state \in {"running", "closed"}
    /\ proc.toEmit = <<>>
    /\ proc' = [proc EXCEPT !.state = "exited"]
    /\ alive' = alive - 1
    /\ UNCHANGED <<launched, status, passed, patched, env_vars, fs, pc, exc, setup_vars, successful_runs, point_vars,
                   run_vars, custom_metrics, inject_vars, events, warnings,
                   printed_summary, seen>>

\* Line 95: [line for line in process.stdout], one line.
ReadLine ==
    /\ pc = "read"
    /\ proc.pipe # <<>>
    /\ captured_output' = Append(captured_output, Head(proc.pipe))
    /\ proc' = [proc EXCEPT !.pipe = Tail(@)]
    /\ UNCHANGED <<hist_vars, env_vars, fs, pc, exc, setup_vars, successful_runs, point_vars,
                   return_code, nonzero_exits, custom_metrics, inject_vars, events, warnings,
                   printed_summary, seen>>

\* As AtEOF, for a read that does not block: nothing to read right now.
PipeEmpty(p) == p.pipe = <<>>

\* The iteration over process.stdout ends: every line written was read and
\* the write end of the pipe is closed.
AtEOF(p) == p.pipe = <<>> /\ p.state \in {"closed", "exited"}

\* As WaitReturns, for process.poll(): it returns at once.
PollReturns(p) == p.state \in {"running", "closed", "exited"}

\* process.wait() returns when the process has exited.
WaitReturns(p) == p.state = "exited"

\* Line 95: end of stream.
ReadEOF ==
    /\ pc = "read"
    /\ AtEOF(proc)
    /\ pc' = "wait"
    /\ UNCHANGED <<hist_vars, env_vars, fs, proc, exc, setup_vars, successful_runs, point_vars,
                   run_vars, custom_metrics, inject_vars, events, warnings,
                   printed_summary, seen>>

\* Line 97: return_code = process.wait().
Wait ==
    /\ pc = "wait"
    /\ WaitReturns(proc)
    /\ return_code' = proc.rc
    /\ nonzero_exits' = IF proc.rc # 0 THEN nonzero_exits + 1 ELSE nonzero_exits
    /\ proc' = [proc EXCEPT !.state = "reaped"]
    /\ events' = Append(events, "wait")
    /\ pc' = "rc"
    /\ UNCHANGED <<hist_vars, env_vars, fs, exc, setup_vars, successful_runs, point_vars,
                   captured_output, custom_metrics, inject_vars, warnings,
                   printed_summary, seen>>

\* Lines 98-101: a failed run prints what was captured and raises.
CheckReturnCode ==
    /\ pc = "rc"
    /\ IF RunFailed(return_code)
       THEN /\ events' = Append(events, "print_output")
            /\ passed' = [passed EXCEPT !.print = <<Join(captured_output)>>]
            /\ exc' = "CalledProcessError"
            /\ pc' = Handler(exc')
       ELSE /\ pc' = "chown"
            /\ UNCHANGED <<events, exc, passed>>
    /\ UNCHANGED <<launched, alive, status, patched, env_vars, fs, proc, setup_vars, successful_runs, point_vars,
                   run_vars, custom_metrics, inject_vars, warnings,
                   printed_summary, seen>>

\* Lines 105-107: subprocess.run(["sudo", "chown", ...], check=True) when both
\* ids are known.  chown fails on a missing file and may fail on any.
ChownSkip ==
    /\ pc = "chown"
    /\ ~IdsKnown(user_id, group_id)
    /\ pc' = "parse"
    /\ UNCHANGED <<hist_vars, env_vars, fs, proc, exc, setup_vars, successful_runs, point_vars,
                   run_vars, custom_metrics, inject_vars, events, warnings,
                   printed_summary, seen>>

ChownOk ==
    /\ pc = "chown"
    /\ IdsKnown(user_id, group_id)
    /\ fs[output_filename].exists
    /\ fs' = [fs EXCEPT ![output_filename].owner = <<user_id, group_id>>]
    /\ events' = Append(events, "chown")
    /\ pc' = "parse"
    /\ passed' = [passed EXCEPT !.chown = <<user_id, group_id, output_filename>>]
    /\ UNCHANGED <<launched, alive, status, patched, env_vars, proc, exc, setup_vars, successful_runs, point_vars,
                   run_vars, custom_metrics, inject_vars, warnings,
                   printed_summary, seen>>

ChownFail ==
    /\ pc = "chown"
    /\ IdsKnown(user_id, group_id)
    /\ events' = Append(events, "chown")
    /\ exc' = "CalledProcessError"
    /\ pc' = Handler(exc')
    /\ passed' = [passed EXCEPT !.chown = <<user_id, group_id, output_filename>>]
    /\ UNCHANGED <<launched, alive, status, patched, env_vars, fs, proc, setup_vars, successful_runs, point_vars,
                   run_vars, custom_metrics, inject_vars, warnings,
                   printed_summary, seen>>

\* Lines 109-110: custom_metrics = parse_custom_metrics("".join(captured_output)).
Parse ==
    /\ pc = "parse"
    /\ LET r == parse_custom_metrics(Join(captured_output))
       IN /\ custom_metrics' = r.metrics
          /\ warnings' = r.warnings
    /\ events' = Append(events, "parse")
    /\ pc' = "inject"
    /\ UNCHANGED <<hist_vars, env_vars, fs, proc, exc, setup_vars, successful_runs, point_vars,
                   run_vars, inject_vars, printed_summary, seen>>

\* Lines 113-114: the run counts as successful.
CountSuccess ==
    /\ pc = "count"
    /\ successful_runs' = successful_runs + 1
    /\ events' = Append(events, "ok")
    /\ pc' = "for"
    /\ status' = Append(status, "Succeeded")
    /\ UNCHANGED <<launched, alive, passed, patched, env_vars, fs, proc, exc, setup_vars, point_vars, run_vars,
                   custom_metrics, inject_vars, warnings, printed_summary, seen>>

\* Lines 116-119: the handler prints that the benchmark command failed.
Except ==
    /\ pc = "except"
    /\ exc' = ""
    /\ events' = Append(events, "FAILED")
    /\ pc' = "for"
    /\ status' = Append(status, "Failed")
    /\ UNCHANGED <<launched, alive, passed, patched, env_vars, fs, proc, setup_vars, successful_runs, point_vars,
                   run_vars, custom_metrics, inject_vars, warnings,
                   printed_summary, seen>>

\* Lines 121-123: the final tally.
Summary ==
    /\ pc = "summary"
    /\ printed_summary' = Append(printed_summary, <<successful_runs, total_runs>>)
    /\ pc' = "done"
    /\ UNCHANGED <<hist_vars, env_vars, fs, proc, exc, setup_vars, successful_runs, point_vars,
                   run_vars, custom_metrics, inject_vars, events, warnings, seen>>

(***************************************************************************)
(* inject_metrics_into_json(output_filename, custom_metrics), called at    *)
(* line 111.  It returns to line 113.                                      *)
(***************************************************************************)
\* The function returns, leaving the files as in newfs: one more run of the
\* enricher on this report is over.
InjectReturns(newfs) ==
    /\ pc' = "count"
    /\ first' = IF calls = 0 THEN newfs[output_filename] ELSE first
    /\ calls' = calls + 1

\* An exception raised inside the try block of lines 44-52: line 53 catches
\* three classes and prints; any other propagates to the caller.
InjectRaises(e) ==
    IF e \in InjectCaught
    THEN /\ logged' = e
         /\ InjectReturns(fs)
         /\ exc' = exc
    ELSE /\ exc' = e
         /\ pc' = Handler(e)
         /\ UNCHANGED <<logged, first, calls>>

\* Lines 41-43: nothing to do for an empty dict.
InjectEntry ==
    /\ pc = "inject"
    /\ events' = Append(events, "inject")
    /\ IF NoMetrics(custom_metrics)
       THEN /\ logged' = "No custom metrics found to inject."
            /\ InjectReturns(fs)
       ELSE /\ logged' = ""
            /\ pc' = "open"
            /\ UNCHANGED <<first, calls>>
    /\ passed' = [passed EXCEPT !.inject = <<output_filename, custom_metrics>>]
    /\ UNCHANGED <<launched, alive, status, patched, env_vars, fs, proc, exc, setup_vars, successful_runs, point_vars,
                   run_vars, custom_metrics, f, data, out, before, warnings,
                   printed_summary, seen>>

\* Line 45: open(json_file, "r+").
InjectOpen ==
    /\ pc = "open"
    /\ LET file == fs[output_filename]
       IN IF ~file.exists THEN InjectRaises("FileNotFoundError") /\ UNCHANGED <<f, before>>
          ELSE IF file.access # "rw" THEN InjectRaises("PermissionError") /\ UNCHANGED <<f, before>>
          ELSE /\ f' = [open |-> TRUE, pos |-> 0]
               /\ before' = file.content
               /\ pc' = "load"
               /\ UNCHANGED <<exc, logged, first, calls>>
    /\ UNCHANGED <<hist_vars, env_vars, fs, proc, setup_vars, successful_runs, point_vars,
                   run_vars, custom_metrics, data, out, events, warnings,
                   printed_summary, seen>>

\* Line 46: data = json.load(f).
InjectLoad ==
    /\ pc = "load"
    /\ LET r == JsonLoad(fs[output_filename].content)
       IN IF r.ok
          THEN /\ data' = r.val
               /\ f' = [f EXCEPT !.pos = Len(fs[output_filename].content)]
               /\ pc' = "get"
               /\ UNCHANGED <<exc, logged, first, calls>>
          ELSE /\ InjectRaises("JSONDecodeError")
               /\ f' = Closed
               /\ data' = data
    /\ UNCHANGED <<hist_vars, env_vars, fs, proc, setup_vars, successful_runs, point_vars,
                   run_vars, custom_metrics, out, before, events, warnings,
                   printed_summary, seen>>

\* Line 47: if data.get("results").
InjectGet ==
    /\ pc = "get"
    /\ IF data.t # "dict"
       THEN InjectRaises("AttributeError") /\ f' = Closed
       ELSE IF HasResults(data)
            THEN pc' = "assign" /\ UNCHANGED <<f, exc, logged, first, calls>>
            ELSE InjectReturns(fs) /\ f' = Closed /\ UNCHANGED <<exc, logged>>
    /\ UNCHANGED <<hist_vars, env_vars, fs, proc, setup_vars, successful_runs, point_vars,
                   run_vars, custom_metrics, data, out, before, events,
                   warnings, printed_summary, seen>>

\* Line 48: data["results"][0]["custom_metrics"] = metrics.
InjectAssign ==
    /\ pc = "assign"
    /\ IF AssignError(data) # ""
       THEN InjectRaises(AssignError(data)) /\ f' = Closed /\ data' = data
       ELSE /\ data' = SetCustomMetrics(data, custom_metrics)
            /\ pc' = "seek"
            /\ UNCHANGED <<f, exc, logged, first, calls>>
    /\ UNCHANGED <<hist_vars, env_vars, fs, proc, setup_vars, successful_runs, point_vars,
                   run_vars, custom_metrics, out, before, events, warnings,
                   printed_summary, seen>>

\* Line 49: f.seek(0).  json.dump will write the text of data.
InjectSeek ==
    /\ pc = "seek"
    /\ f' = [f EXCEPT !.pos = 0]
    /\ out' = Dump(data, 0)
    /\ pc' = "dump"
    /\ UNCHANGED <<hist_vars, env_vars, fs, proc, exc, setup_vars, successful_runs, point_vars,
                   run_vars, custom_metrics, data, logged, before, calls, first,
                   events, warnings, printed_summary, seen>>

\* Line 50: json.dump(data, f, indent=2).  The text reaches the file in one
\* or more writes, each of the next tokens at the file position, over what is
\* there.  A write carries one token or all that is left: every split of the
\* text into writes passes only through states that these two reach.
InjectDump ==
    /\ pc = "dump"
    /\ \E n \in {1, Len(out)} :
          /\ fs' = [fs EXCEPT ![output_filename].content =
                                  Overwrite(@, f.pos, SubSeq(out, 1, n))]
          /\ f' = [f EXCEPT !.pos = @ + n]
          /\ out' = SubSeq(out, n + 1, Len(out))
          /\ pc' = IF n = Len(out) THEN "truncate" ELSE "dump"
    /\ patched' = IF f.pos = 0 THEN Append(patched, <<i, output_filename>>) ELSE patched
    /\ UNCHANGED <<launched, alive, status, passed, env_vars, proc, exc, setup_vars, successful_runs, point_vars,
                   run_vars, custom_metrics, data, logged, before, calls, first,
                   events, warnings, printed_summary, seen>>

\* Line 51: f.truncate() cuts the file at the position.
InjectTruncate ==
    /\ pc = "truncate"
    /\ fs' = [fs EXCEPT ![output_filename].content = SubSeq(@, 1, f.pos)]
    /\ pc' = "close"
    /\ UNCHANGED <<hist_vars, env_vars, proc, exc, setup_vars, successful_runs, point_vars,
                   run_vars, custom_metrics, f, data, out, logged, before, calls,
                   first, events, warnings, printed_summary, seen>>

\* Line 52 and the end of the with block: print, close, return.
InjectClose ==
    /\ pc = "close"
    /\ f' = Closed
    /\ logged' = "Injected custom metrics"
    /\ InjectReturns(fs)
    /\ UNCHANGED <<hist_vars, env_vars, fs, proc, exc, setup_vars, successful_runs, point_vars,
                   run_vars, custom_metrics, data, out, before, events, warnings,
                   printed_summary, seen>>

Inject ==
    \/ InjectEntry
    \/ InjectOpen
    \/ InjectLoad
    \/ InjectGet
    \/ InjectAssign
    \/ InjectSeek
    \/ InjectDump
    \/ InjectTruncate
    \/ InjectClose

(***************************************************************************)
(* The specifications.                                                     *)
(***************************************************************************)
Controller ==
    \/ Build
    \/ Setup
    \/ ForNext
    \/ ForEnd
    \/ Popen
    \/ ReadLine
    \/ ReadEOF
    \/ Wait
    \/ CheckReturnCode
    \/ ChownSkip
    \/ ChownOk
    \/ ChownFail
    \/ Parse
    \/ CountSuccess
    \/ Except
    \/ Summary

Process ==
    \/ ProcEmit
    \/ ProcExport
    \/ ProcClose
    \/ ProcExit

Next == Controller \/ Inject \/ Process

\* A sweep of a matrix of at most MaxConfigs points.
Spec == Init /\ [][Next]_vars

\* A sweep of one point with many captured texts.
SpecExtract == InitExtract /\ [][Next]_vars

\* A sweep of a matrix of at most MaxPoints points, with few kinds of run.
SpecMatrix == InitMatrix /\ [][Next]_vars

\* The enricher is between its seek(0) and the end of its with block.
Rewriting == pc \in {"seek", "dump", "truncate", "close"}

\* Another program reads a report file, whole, at any moment.
ReaderRead ==
    /\ \E path \in DOMAIN fs :
          /\ fs[path].exists
          /\ seen' = [valid |-> TRUE, content |-> fs[path].content,
                      rewriting |-> Rewriting, call |-> calls]
    /\ UNCHANGED <<hist_vars, env_vars, fs, proc, pc, exc, setup_vars, successful_runs,
                   point_vars, run_vars, custom_metrics, inject_vars, events,
                   warnings, printed_summary>>

\* inject_metrics_into_json is called a second time with the same arguments,
\* right after its first return.
InjectAgain ==
    /\ pc = "count"
    /\ calls = 1
    /\ pc' = "inject"
    /\ UNCHANGED <<hist_vars, env_vars, fs, proc, exc, setup_vars, successful_runs, point_vars,
                   run_vars, custom_metrics, inject_vars, events, warnings,
                   printed_summary, seen>>

NextEnrich == Next \/ ReaderRead \/ InjectAgain

\* A sweep of one point with many report files, a concurrent reader and a
\* second enrichment.
SpecEnrich == InitEnrich /\ [][NextEnrich]_vars

(***************************************************************************)
(* The claims.                                                             *)
(***************************************************************************)
HasEvent(e) == \E n \in 1..Len(events) : events[n] = e
InSeq(x, q) == \E n \in 1..Len(q) : q[n] = x
Keys(d) == {d.v[n].key : n \in 1..Len(d.v)}

\* The exceptions of the enricher that line 53 does not name.
Uncaught == {"AttributeError", "TypeError", "KeyError", "IndexError"}

\* C1 (Spec): whatever the exit statuses of the runs, nothing stops the sweep
\* once the loop is entered: the program does not end on an exception, and
\* when the controller is done every point of the matrix has been dispatched
\* and the final tally has been printed exactly once.
C1_SweepNeverStopsShort ==
    /\ pc = "aborted" => i < 0
    /\ pc = "done" => (i + 1 = total_runs /\ Len(printed_summary) = 1)

\* The run of the current point has been waited for and exited nonzero.
FailedRun == HasEvent("wait") /\ return_code # 0

\* C2 (Spec): for a point whose run exited nonzero the controller calls
\* neither chown nor parse_custom_metrics nor inject_metrics_into_json, never
\* reaches the success count, leaves every report file as it is and does not
\* increment successful_runs.
C2_FailedRunSkipsPipeline ==
    /\ [](FailedRun =>
            /\ ~HasEvent("chown") /\ ~HasEvent("parse") /\ ~HasEvent("inject")
            /\ ~HasEvent("ok")
            /\ pc \in {"rc", "except", "for", "summary", "done"})
    /\ [][FailedRun => (fs' = fs /\ successful_runs' = successful_runs)]_vars

\* A failed run was handled: its exported report is still there, untouched.
C2_Witness ==
    /\ FailedRun
    /\ HasEvent("FAILED")
    /\ pc = "for"
    /\ fs[output_filename] = RootFile(GoodOne, "rw")
    /\ i + 1 < total_runs

\* C3 (Spec): when no run of the sweep exited nonzero, the final tally is
\* successful_runs = total_runs, whatever chown, the extractor and the
\* enricher did.
C3_TallyCountsEveryCleanRun ==
    (pc = "done" /\ nonzero_exits = 0) =>
        printed_summary = <<<<total_runs, total_runs>>>>

\* C4 (SpecEnrich): called with an empty MetricSet the enricher returns at
\* once: no file is opened, created or changed and nothing is raised or
\* reported as an error, whatever the report file is.
C4_EmptyMetricsNoOp ==
    [][(pc = "inject" /\ ~Truthy(custom_metrics) /\ pc' # pc) =>
          /\ pc' = "count"
          /\ fs' = fs
          /\ ~f.open /\ f' = f
          /\ exc' = "" /\ logged' \notin InjectCaught
          /\ calls' = calls + 1]_vars

\* The enricher returned from a call with no metrics on a report that no
\* enrichment could have handled.
C4_Witness ==
    /\ pc = "count"
    /\ calls = 1
    /\ ~Truthy(custom_metrics)
    /\ fs[output_filename].content = TopList
    /\ first = fs[output_filename]

\* A document whose "results" is an empty array or is missing.
EmptyOrAbsentResults(d) ==
    /\ d.t = "dict"
    /\ ~HasKey(d, "results") \/ DictItem(d, "results") = PyList(<<>>)

\* C5 (SpecEnrich): with a non-empty MetricSet and a report whose result
\* array is empty or absent, the enricher returns without raising and the
\* file is as it was when it was opened: nothing was written.
C5_EmptyResultsUntouched ==
    /\ [](pc \in {"load", "get"} =>
            fs[output_filename].content = before /\ exc = "")
    /\ [][(pc = "get" /\ Truthy(custom_metrics) /\ EmptyOrAbsentResults(data)
              /\ pc' # pc) =>
             /\ pc' = "count"
             /\ fs' = fs
             /\ exc' = "" /\ logged' = ""]_vars

\* The enricher returned from a report with an empty result array.
C5_Witness ==
    /\ pc = "count"
    /\ calls = 1
    /\ Truthy(custom_metrics)
    /\ fs[output_filename].content = EmptyResults
    /\ logged = ""

\* C6 (SpecEnrich): whatever is wrong with the report file, no exception
\* leaves the enricher, and the enricher creates no file: a report file is
\* there only if the run exported it.
C6_EnricherCatchesEveryFailure ==
    /\ exc \notin Uncaught
    /\ pc # "aborted" \/ i < 0
    /\ (i >= 0 /\ fs[output_filename].exists) => proc.exported

\* The document a text holds.
DocOf(text) == JsonLoad(text).val

\* Two dicts that differ at most in the value of key.
SameExcept(d1, d2, key) ==
    /\ d1.t = "dict" /\ d2.t = "dict"
    /\ \A k \in (Keys(d1) \cup Keys(d2)) \ {key} :
          HasKey(d1, k) /\ HasKey(d2, k) /\ DictItem(d1, k) = DictItem(d2, k)

\* The enricher has just returned from a call that rewrote the report.
Enriched == pc = "count" /\ logged = "Injected custom metrics"

\* C7 (SpecEnrich): after an enrichment with a non-empty MetricSet the file
\* holds a document whose first result entry has custom_metrics equal to the
\* MetricSet (whatever it held before), and which otherwise is the document
\* that was there: same top-level fields, same number of entries, the other
\* entries and the other fields of the first entry unchanged.  After a second
\* enrichment with the same MetricSet the file is as after the first.
C7_EnrichmentSetsOnlyCustomMetrics ==
    Enriched =>
        LET old == DocOf(before)
            new == DocOf(fs[output_filename].content)
            oldres == DictItem(old, "results")
            newres == DictItem(new, "results")
        IN /\ JsonLoad(fs[output_filename].content).ok
           /\ SameExcept(old, new, "results")
           /\ HasKey(new, "results")
           /\ newres.t = "list"
           /\ Len(newres.v) = Len(oldres.v)
           /\ \A n \in 2..Len(oldres.v) : newres.v[n] = oldres.v[n]
           /\ SameExcept(oldres.v[1], newres.v[1], "custom_metrics")
           /\ HasKey(newres.v[1], "custom_metrics")
           /\ DictItem(newres.v[1], "custom_metrics") = custom_metrics
           /\ calls = 2 => fs[output_filename] = first

\* A report of two entries was enriched twice; its first entry held another
\* custom_metrics before.
C7_Witness ==
    /\ Enriched
    /\ calls = 2
    /\ Len(DictItem(DocOf(fs[output_filename].content), "results").v) = 2
    /\ Len(custom_metrics.v) = 1
    /\ HasKey(DictItem(DocOf(fs[output_filename].content), "results").v[2], "stale") = FALSE
    /\ HasKey(DictItem(DocOf(fs[output_filename].content), "results").v[2], "custom_metrics")
    /\ fs[output_filename] = first

\* C8 (SpecEnrich): a reader that reads the report while the enricher is
\* between its seek(0) and the end of its rewrite sees the whole text the
\* file had when it was opened or the whole text of the enriched document.
C8_ReplaceIsAtomic ==
    (Rewriting /\ seen.valid /\ seen.rewriting /\ seen.call = calls) =>
        seen.content \in {before, Dump(data, 0)}

\* The pattern p matches text from n to e + 1: prefix, number characters
\* from n + 1 to e, suffix.
IsMatchSpan(p, text, n, e) ==
    /\ text[n] = p.pre
    /\ e > n
    /\ \A k \in (n + 1)..e : IsNumChar(text[k])
    /\ text[e + 1] = p.suf

MatchStarts(p, text) ==
    {n \in 1..Len(text) : \E e \in (n + 1)..(Len(text) - 1) : IsMatchSpan(p, text, n, e)}

\* What the first match of p in text captures.
FirstCapture(p, text) ==
    LET n == CHOOSE m \in MatchStarts(p, text) : \A k \in MatchStarts(p, text) : m <= k
        e == CHOOSE k \in (n + 1)..(Len(text) - 1) : IsMatchSpan(p, text, n, k)
    IN SubSeq(text, n + 1, e)

\* s is a decimal numeral: digits, with at most one point anywhere, and at
\* least one digit.  d is the place of the point, 0 for none.
IsDecimal(s) ==
    \E d \in 0..Len(s) :
        /\ d > 0 => s[d] = "."
        /\ \A k \in (1..Len(s)) \ {d} : IsDigit(s[k])
        /\ Len(s) > (IF d > 0 THEN 1 ELSE 0)

\* The float x is the number the decimal numeral s writes.
ValueIs(x, s) ==
    LET d == IF \E k \in 1..Len(s) : s[k] = "."
             THEN CHOOSE k \in 1..Len(s) : s[k] = "." ELSE Len(s)
    IN /\ x.t = "float"
       /\ x.v[1] * Pow10(Len(s) - d) = DigitsVal(SelectSeq(s, IsDigit)) * Pow10(x.v[2])

CapturedText == Join(captured_output)

\* C9 (SpecExtract): after parse_custom_metrics, for each of the three rules:
\* when the captured text holds no match of the rule, the rule's key is not
\* in the result; when it holds matches and the first one captures a number,
\* the key maps to that very number.  Each rule depends on its own pattern
\* only.
C9_FirstMatchLiteralValue ==
    HasEvent("parse") =>
        \A r \in 1..Len(patterns) :
            LET p == patterns[r]
            IN IF MatchStarts(p, CapturedText) = {}
               THEN ~HasKey(custom_metrics, p.key)
               ELSE IsDecimal(FirstCapture(p, CapturedText)) =>
                       /\ HasKey(custom_metrics, p.key)
                       /\ ValueIs(DictItem(custom_metrics, p.key),
                                  FirstCapture(p, CapturedText))

\* The text held two matches of the first rule with different numbers, and
\* no match of the second rule.
C9_Witness ==
    /\ HasEvent("parse")
    /\ CapturedText = <<P1, "5", S1, NL, P1, "1", ".", "5", S1, NL>>
    /\ DictItem(custom_metrics, patterns[1].key) = PyFloat(<<"5">>)
    /\ ~HasKey(custom_metrics, patterns[2].key)

\* C10 (SpecExtract): when the first match of a rule captures something that
\* is no number, parse_custom_metrics warns about that key, leaves it out of
\* the result, still extracts every other rule's number and raises nothing.
C10_UnparseableValueOmitted ==
    HasEvent("parse") =>
        \A r \in 1..Len(patterns) :
            LET p == patterns[r]
                bad(q) == /\ MatchStarts(q, CapturedText) # {}
                          /\ ~IsDecimal(FirstCapture(q, CapturedText))
            IN /\ bad(p) <=> InSeq(p.key, warnings)
               /\ bad(p) =>
                    /\ ~HasKey(custom_metrics, p.key)
                    /\ exc # "ValueError"
                    /\ \A r2 \in 1..Len(patterns) :
                          (MatchStarts(patterns[r2], CapturedText) # {} /\ ~bad(patterns[r2]))
                              => HasKey(custom_metrics, patterns[r2].key)

\* One rule captured "." and another a number: the run went on to be counted.
C10_Witness ==
    /\ pc = "count"
    /\ warnings = <<patterns[1].key>>
    /\ CapturedText = <<P1, ".", S1, NL, P2, "1", ".", "5", S2, NL>>
    /\ Keys(custom_metrics) = {patterns[2].key}

\* The place of x in the list q.
PlaceIn(q, x) == CHOOSE n \in 1..Len(q) : q[n] = x

\* The point c comes before the point d: its writers level comes first in
\* the writers list; or they are equal and its records level comes first; or
\* those are equal too and its batch size comes first.
ComesBefore(c, d) ==
    LET cw == PlaceIn(Writers, c[1])
        dw == PlaceIn(Writers, d[1])
        cr == PlaceIn(Records, c[2])
        dr == PlaceIn(Records, d[2])
        cb == PlaceIn(Batches, c[3])
        db == PlaceIn(Batches, d[3])
    IN \/ cw < dw
       \/ cw = dw /\ cr < dr
       \/ cw = dw /\ cr = dr /\ cb < db

\* The set of the elements of the list q.
Range(q) == {q[n] : n \in 1..Len(q)}

\* C11 (SpecMatrix): once the matrix is built it holds every combination of a
\* writers level, a records level and a batch size exactly once, as many as
\* the product of the three lengths, writers varying slowest and batch size
\* fastest; the runs are started in that order, one per point, and when the
\* sweep is done every point was started.
C11_MatrixOrder ==
    pc \notin {"build", "setup", "aborted"} =>
        /\ total_runs = Len(Writers) * Len(Records) * Len(Batches)
        /\ Len(param_combinations) = total_runs
        /\ Range(param_combinations) = Range(Writers) \X Range(Records) \X Range(Batches)
        /\ \A n, m \in 1..Len(param_combinations) :
              n < m => ComesBefore(param_combinations[n], param_combinations[m])
        /\ Len(launched) \in {i, i + 1}
        /\ \A n \in 1..Len(launched) : launched[n] = CommandToRun(param_combinations[n])
        /\ pc = "done" => Len(launched) = total_runs

\* A sweep of two writers levels and two batch sizes is done: the second run
\* was that of the first writers level with the second batch size.
C11_Witness ==
    /\ pc = "done"
    /\ levels = <<2, 1, 2>>
    /\ Len(launched) = 4
    /\ launched[2] = CommandToRun(<<1, 100000, 5120>>)
    /\ launched[3] = CommandToRun(<<2, 100000, 1024>>)

\* The digits s are the decimal numeral of n, with no leading zero.
IsNumeral(s, n) ==
    /\ Len(s) > 0
    /\ \A k \in 1..Len(s) : IsDigit(s[k])
    /\ Len(s) > 1 => s[1] # "0"
    /\ DigitsVal(s) = n

\* What stands in q between the piece a and the piece b.
Between(q, a, b) == SubSeq(q, PlaceIn(q, a) + 1, PlaceIn(q, b) - 1)

\* path is reports/run-W<w>-R<r>-B<b>.json for the point c = <<w, r, b>>.
NamesPoint(path, c) ==
    /\ {"run-W", "-R", "-B", ".json"} \subseteq Range(path)
    /\ SubSeq(path, 1, 3) = <<"reports", "/", "run-W">>
    /\ path[Len(path)] = ".json"
    /\ IsNumeral(Between(path, "run-W", "-R"), c[1])
    /\ IsNumeral(Between(path, "-R", "-B"), c[2])
    /\ IsNumeral(Between(path, "-B", ".json"), c[3])
    /\ Len(path) = 6 + Len(Between(path, "run-W", "-R"))
                     + Len(Between(path, "-R", "-B")) + Len(Between(path, "-B", ".json"))

\* cmd runs the benchmarked program with the three flags bound to c.
BindsPoint(cmd, c) ==
    LET a == " --num-writers "
        b == " --target-records "
        d == " --record-batch-size "
    IN /\ {a, b, d} \subseteq Range(cmd)
       /\ SubSeq(cmd, 1, 2) = <<"./target/release/parquet-nested-parallel", a>>
       /\ IsNumeral(Between(cmd, a, b), c[1])
       /\ IsNumeral(Between(cmd, b, d), c[2])
       /\ IsNumeral(SubSeq(cmd, PlaceIn(cmd, d) + 1, Len(cmd)), c[3])

\* C12 (SpecMatrix): during the iteration of a point <<w, r, b>> the report
\* path is reports/run-W<w>-R<r>-B<b>.json and the benchmark command binds
\* --num-writers, --target-records and --record-batch-size to w, r and b; the
\* path of --export-json, the path chown is given and the path the enricher
\* is given are that same path, and the process that runs was started with
\* that command.  The point (2, 1000000, 5120) is named
\* run-W2-R1000000-B5120.json.
C12_ReportNaming ==
    /\ OutputFilename(<<2, 1000000, 5120>>) =
          <<"reports", "/", "run-W", "2", "-R", "1", "0", "0", "0", "0", "0", "0",
            "-B", "5", "1", "2", "0", ".json">>
    /\ (i >= 0 /\ pc # "aborted") =>
          LET c == param_combinations[i + 1]
          IN /\ NamesPoint(output_filename, c)
             /\ BindsPoint(command_to_run.bench, c)
             /\ command_to_run.export_json = output_filename
             /\ HasEvent("Popen") =>
                   (proc.argv = command_to_run /\ launched[Len(launched)] = command_to_run)
             /\ passed.chown # <<>> => passed.chown[3] = output_filename
             /\ passed.inject # <<>> => passed.inject[1] = output_filename

\* The second point of a sweep over two writers levels went through chown and
\* the enricher.
C12_Witness ==
    /\ i = 1
    /\ levels = <<2, 1, 1>>
    /\ pc = "count"
    /\ output_filename =
          <<"reports", "/", "run-W", "2", "-R", "1", "0", "0", "0", "0", "0",
            "-B", "1", "0", "2", "4", ".json">>
    /\ passed.chown = <<"1000", "1000", output_filename>>
    /\ passed.inject[1] = output_filename
    /\ fs[output_filename].owner = <<"1000", "1000">>

\* C13 (Spec): at most one process started by the controller is alive at any
\* time, and while one is alive the controller does nothing but read its
\* output or wait for it; a process is started only when every process
\* started before has exited and been waited for, and every point dispatched
\* before has been marked, with the enricher's file closed.
C13_OneRunAtATime ==
    /\ [](/\ alive \in {0, 1}
          /\ alive = 1 => pc \in {"read", "wait"})
    /\ [][Len(launched') > Len(launched) =>
             /\ alive = 0
             /\ proc.state \in {"none", "reaped"}
             /\ Len(status) = Len(launched)
             /\ Len(status) = i
             /\ ~f.open]_vars

\* The run of the second point is alive, having closed its output, after
\* the first point was marked.
C13_Witness ==
    /\ i = 1
    /\ alive = 1
    /\ proc.state = "closed"
    /\ Len(status) = 1
    /\ Len(launched) = 2

\* C14 (Spec): while the controller reads, what it has captured followed by
\* what is in the pipe is what the process has written, in order; from the
\* moment it calls wait, for a zero and for a nonzero exit alike, the captured
\* lines are all the lines the process produced, and the process has nothing
\* more to write; and when the run exited nonzero the whole captured text was
\* printed before the point was marked failed.
C14_OutputReadToTheEnd ==
    /\ [](/\ pc = "read" => captured_output \o proc.pipe = proc.said
          /\ (pc = "wait" \/ HasEvent("wait")) =>
                /\ captured_output = proc.said
                /\ proc.toEmit = <<>>
                /\ proc.pipe = <<>>
          /\ (FailedRun /\ pc # "rc") => passed.print = <<Join(proc.said)>>
          /\ passed.print # <<>> => FailedRun)
    /\ [][(FailedRun /\ Len(status') > Len(status)) =>
             (passed.print = <<Join(proc.said)>> /\ status' = Append(status, "Failed"))]_vars

\* A run that wrote two lines and exited nonzero was marked failed.
C14_Witness ==
    /\ FailedRun
    /\ pc = "for"
    /\ status[i + 1] = "Failed"
    /\ captured_output = <<JunkLine, TimeLine>>
    /\ passed.print = <<JunkLine \o TimeLine>>

\* The phase of the controller: 0 idle, 1 in the loop over the points,
\* 2 summarizing, 3 done or ended by an exception.
Phase(at) ==
    CASE at \in {"build", "setup"} -> 0
      [] at \in {"summary"} -> 2
      [] at \in {"done", "aborted"} -> 3
      [] OTHER -> 1

\* How many elements of q are x.
CountOf(q, x) == Cardinality({n \in 1..Len(q) : q[n] = x})

\* C15 (Spec): the controller never goes back to an earlier phase or an
\* earlier point; no command is started twice and the n-th start is that of
\* the n-th point, so no point is dispatched twice or run again; the marks
\* Succeeded and Failed given so far never change, one per point in order,
\* only for a point that was dispatched; successful_runs is the number of
\* points marked Succeeded, never decreases and never exceeds the number of
\* points dispatched.
C15_NoRetryNoWayBack ==
    /\ [](/\ \A n, m \in 1..Len(launched) : launched[n] = launched[m] => n = m
          /\ \A n \in 1..Len(launched) : launched[n] = CommandToRun(param_combinations[n])
          /\ Len(status) <= Len(launched)
          /\ Len(launched) <= i + 1
          /\ Len(launched) <= total_runs
          /\ successful_runs = CountOf(status, "Succeeded")
          /\ successful_runs <= Len(launched)
          /\ Phase(pc) = 0 => (launched = <<>> /\ status = <<>>)
          /\ pc \in {"summary", "done"} => Len(status) = total_runs)
    /\ [][/\ Phase(pc') >= Phase(pc)
          /\ pc \in {"done", "aborted"} => pc' = pc
          /\ i' \in {i, i + 1}
          /\ Len(status') >= Len(status)
          /\ SubSeq(status', 1, Len(status)) = status
          /\ Len(launched') >= Len(launched)
          /\ SubSeq(launched', 1, Len(launched)) = launched
          /\ successful_runs' >= successful_runs
          /\ Len(status') > Len(status) =>
                (Len(status') = i + 1 /\ Len(launched) = i + 1)]_vars

\* A sweep of two points is done, the first failed and the second succeeded.
C15_Witness ==
    /\ pc = "done"
    /\ status = <<"Failed", "Succeeded">>
    /\ successful_runs = 1
    /\ Len(launched) = 2

\* The controller did a and later b for the current point.
DidBefore(a, b) ==
    \E n, m \in 1..Len(events) : n < m /\ events[n] = a /\ events[m] = b

\* A user id and a group id are both there.
BothIds == user_id # "" /\ group_id # ""

\* C16 (Spec): for a point whose run exited zero: chown is called exactly when
\* both ids are there, on the point's report, and has changed the owner by
\* the time the extractor is called; the extractor is called after it, or
\* first when chown is skipped, on the captured output; the enricher is
\* called after the extractor with the report path and the MetricSet the
\* extractor returned; the tally is incremented by one only after the
\* enricher has returned.
C16_StepsInOrder ==
    /\ [](/\ HasEvent("chown") =>
                /\ DidBefore("wait", "chown") /\ return_code = 0
                /\ BothIds
                /\ passed.chown = <<user_id, group_id, output_filename>>
          /\ HasEvent("parse") =>
                /\ DidBefore("wait", "parse") /\ return_code = 0
                /\ BothIds <=> HasEvent("chown")
                /\ BothIds =>
                      /\ DidBefore("chown", "parse")
                      /\ fs[output_filename].owner = <<user_id, group_id>>
                /\ custom_metrics = parse_custom_metrics(Join(proc.said)).metrics
          /\ HasEvent("inject") =>
                /\ DidBefore("parse", "inject")
                /\ passed.inject = <<output_filename, custom_metrics>>
          /\ HasEvent("ok") =>
                /\ DidBefore("inject", "ok")
                /\ calls >= 1 /\ ~f.open /\ pc \in {"for", "summary", "done"})
    /\ [][successful_runs' # successful_runs =>
             /\ successful_runs' = successful_runs + 1
             /\ HasEvent("inject") /\ ~HasEvent("ok")
             /\ calls >= 1 /\ ~f.open /\ pc = "count"]_vars

\* A point went through chown, the extractor and an enrichment that rewrote
\* the report, and was counted.
C16_Witness ==
    /\ events = <<"Popen", "wait", "chown", "parse", "inject", "ok">>
    /\ logged = "Injected custom metrics"
    /\ successful_runs = 1
    /\ fs[output_filename].owner = <<"1000", "1000">>

\* The controller is through with the current point, or the program ended.
PointOver == pc \in {"for", "summary", "done", "aborted"}

\* C17 (SpecEnrich): a point whose run exited zero and for which the enricher
\* was called is marked Succeeded and counted once, whatever the enricher
\* found: no metrics, no report file, a malformed or unwritable one, or an
\* empty result array.
C17_CountedWhateverEnrichmentDid ==
    (HasEvent("inject") /\ PointOver) =>
        /\ HasEvent("ok")
        /\ status = <<"Succeeded">>
        /\ successful_runs = 1

\* chown was called for the current point and did not succeed: the
\* extractor was not reached.
ChownFailed == passed.chown # <<>> /\ pc # "parse" /\ ~HasEvent("parse")

\* C18 as the claim states it (Spec): once chown has failed for a point, no
\* later point is dispatched and no final summary is printed.
C18_ChownFailureAbortsSweep ==
    [][ChownFailed => (i' = i /\ printed_summary' = printed_summary)]_vars

\* C18 amended (Spec): when chown fails for a point whose run exited zero,
\* the exception is caught by the loop's handler: the extractor and the
\* enricher are not called for the point, it is marked Failed and not
\* counted, no report file changes, and the controller goes on to the next
\* point, or to the final summary after the last.
C18_ChownFailureIsCaught ==
    /\ [](ChownFailed =>
            /\ return_code = 0
            /\ ~HasEvent("inject") /\ ~HasEvent("ok")
            /\ pc \in {"except", "for", "summary", "done"}
            /\ pc = "except" => exc = "CalledProcessError"
            /\ pc # "except" =>
                  (exc = "" /\ HasEvent("FAILED") /\ status[i + 1] = "Failed")
            /\ pc = "done" => Len(printed_summary) = 1)
    /\ [][ChownFailed =>
             /\ successful_runs' = successful_runs
             /\ fs' = fs
             /\ pc = "for" =>
                   IF i + 1 < total_runs
                   THEN pc' = "popen" /\ i' = i + 1
                   ELSE pc' = "summary"]_vars

\* chown failed for both points of a sweep whose runs all exited zero, and
\* the summary was printed.
C18_Witness ==
    /\ ChownFailed
    /\ nonzero_exits = 0
    /\ i = 1
    /\ status = <<"Failed", "Failed">>
    /\ pc = "done"
    /\ printed_summary = <<<<0, 2>>>>

\* Every point of the whole matrix of lines 16-18.
AllPoints == Range(WRITER_LEVELS) \X Range(RECORD_LEVELS) \X Range(BATCH_SIZE_LEVELS)

\* No two points of the whole matrix have the same report path.
PathsDistinct == \A c, d \in AllPoints : c # d => OutputFilename(c) # OutputFilename(d)

\* C19 (Spec): distinct points have distinct report paths, over the whole
\* matrix and among the commands started in a sweep; the enricher begins at
\* most one rewrite per report file, and only of the report of the point
\* being processed; and a step of this program that changes a report file is
\* a write or truncate of the enricher on the current point's report, or the
\* change of its owner by chown: any other change is the external runner
\* exporting the report of the run in progress.
C19_OnePatchPerReport ==
    /\ [](/\ PathsDistinct
          /\ \A n, m \in 1..Len(launched) :
                n # m => launched[n].export_json # launched[m].export_json
          /\ \A n, m \in 1..Len(patched) :
                (patched[n][2] = patched[m][2] \/ patched[n][1] = patched[m][1]) => n = m
          /\ \A n \in 1..Len(patched) :
                /\ patched[n][1] <= i
                /\ patched[n][2] = launched[patched[n][1] + 1].export_json
                /\ NamesPoint(patched[n][2], param_combinations[patched[n][1] + 1])
          /\ CountOf(events, "inject") <= 1)
    /\ [][\A path \in DOMAIN fs :
             fs'[path] # fs[path] =>
                \/ /\ proc.state \in {"running", "closed"}
                   /\ ~proc.exported /\ proc'.exported
                   /\ path = launched[i + 1].export_json
                \/ /\ pc \in {"dump", "truncate"}
                   /\ path = output_filename
                   /\ InSeq(<<i, path>>, patched')
                   /\ fs'[path] = [fs[path] EXCEPT !.content = fs'[path].content]
                \/ /\ pc = "chown"
                   /\ path = output_filename
                   /\ fs'[path] = [fs[path] EXCEPT !.owner = fs'[path].owner]]_vars

\* A sweep over two batch sizes is done and each of the two reports was
\* rewritten once.
C19_Witness ==
    /\ pc = "done"
    /\ levels = <<1, 1, 2>>
    /\ Len(patched) = 2
    /\ patched[1] = <<0, launched[1].export_json>>
    /\ patched[2] = <<1, launched[2].export_json>>
    /\ fs[patched[1][2]].content = fs[patched[2][2]].content
    /\ logged = "Injected custom metrics"

====
